---- MODULE Spec2Model ----
(***************************************************************************)
(* Model of the CORS forwarding proxy of src/src/main.rs: the handler      *)
(* cors_proxy, stage by stage, with the upstream server as environment.    *)
(*                                                                         *)
(* Text is modelled by what the code does with it:                         *)
(*   - a URL segment is a sequence of one-character strings;               *)
(*   - a header value is a sequence of byte values (0..255);               *)
(*   - a body is a sequence of opaque tokens (the fixed diagnostic texts   *)
(*     are one token each, an upstream body is a sequence of byte tokens). *)
(***************************************************************************)
EXTENDS Integers, Sequences, FiniteSets, TLC

\* ------------------------------------------------------------------ bounds
\* number of request slots the server handles
NumReq == 2
\* a URL segment is built from at most MaxPieces pieces of Pieces
MaxPieces == 4
\* the query string and the inbound headers vary for the segments of at most
\* MaxShortPieces pieces
MaxShortPieces == 2

Req == 1..NumReq

\* --------------------------------------------------------------- utilities
RECURSIVE Flatten(_)
Flatten(ss) == IF ss = <<>> THEN <<>> ELSE Head(ss) \o Flatten(Tail(ss))

\* ---------------------------------------------------------- string literals
Http == <<"h", "t", "t", "p", ":", "/", "/">>
Https == <<"h", "t", "t", "p", "s", ":", "/", "/">>
SchemeSep == <<":", "/", "/">>
Dot == "."

\* "application/json"
AppJson == <<97, 112, 112, 108, 105, 99, 97, 116, 105, 111, 110, 47, 106, 115, 111, 110>>
\* "*"
AllowOriginValue == <<42>>
\* "GET, POST, PUT, DELETE, OPTIONS"
AllowMethodsValue == <<71, 69, 84, 44, 32, 80, 79, 83, 84, 44, 32, 80, 85, 84, 44, 32, 68, 69, 76, 69, 84, 69, 44, 32, 79, 80, 84, 73, 79, 78, 83>>
\* "Content-Type"
AllowHeadersValue == <<67, 111, 110, 116, 101, 110, 116, 45, 84, 121, 112, 101>>
\* "3600"
MaxAgeValue == <<51, 54, 48, 48>>

MsgUnsupported == "Unsupported protocol. Only HTTP and HTTPS are allowed."
MsgInvalidDomain == "Invalid domain name"
MsgNoUrl == "No URL specified"
MsgForwardFailed == "Failed to forward request: "
MsgReadFailed == "Failed to read response body: "

\* ------------------------------------------------------------ str functions
\* str::starts_with
StartsWith(s, p) == Len(s) >= Len(p) /\ SubSeq(s, 1, Len(p)) = p

\* index of the first occurrence of p in s, 0 when there is none
FindFirst(s, p) ==
    LET hits == {i \in 1..(Len(s) - Len(p) + 1) : SubSeq(s, i, i + Len(p) - 1) = p}
    IN IF hits = {} THEN 0 ELSE CHOOSE i \in hits : \A j \in hits : i <= j

\* str::contains
Contains(s, p) == FindFirst(s, p) # 0

\* str::split(p).last(): the pieces are cut left to right, without overlap
RECURSIVE SplitLast(_, _)
SplitLast(s, p) ==
    LET i == FindFirst(s, p)
    IN IF i = 0 THEN s ELSE SplitLast(SubSeq(s, i + Len(p), Len(s)), p)

\* a plausible slip: only a "://" in front of the first "/" counts as a scheme
UnsupportedProtocol_Leading(url) ==
    /\ Contains(url, SchemeSep)
    /\ FindFirst(url, <<"/">>) = FindFirst(url, SchemeSep) + 1
    /\ ~StartsWith(url, Http) /\ ~StartsWith(url, Https)

\* a plausible slip: contains() where starts_with() is meant
UnsupportedProtocol_Contains(url) ==
    Contains(url, SchemeSep) /\ ~Contains(url, Http) /\ ~Contains(url, Https)

\* url.contains("://") && !url.starts_with("http://") && !url.starts_with("https://")
UnsupportedProtocol(url) ==
    Contains(url, SchemeSep) /\ ~StartsWith(url, Http) /\ ~StartsWith(url, Https)

\* a plausible slip: the dot is looked for in the whole segment
Domain_Whole(url) == url

\* let domain = url.split("://").last().unwrap_or(url)
Domain(url) == SplitLast(url, SchemeSep)

\* domain.contains('.')
HasDot(domain) == \E i \in 1..Len(domain) : domain[i] = Dot

\* a plausible slip: the prefix is added unconditionally
Normalize_Always(url) == Https \o url

\* prepend https:// if no protocol is specified
Normalize(url) ==
    IF ~StartsWith(url, Http) /\ ~StartsWith(url, Https) THEN Https \o url ELSE url

\* HeaderValue::to_str succeeds only on visible ASCII (and tab)
IsVisibleAscii(b) == (b >= 32 /\ b < 127) \/ b = 9
ToStrOk(v) == \A i \in 1..Len(v) : IsVisibleAscii(v[i])

\* ------------------------------------------------------------------ inputs
None == <<"None">>
Some(x) == <<"Some", x>>
IsSome(o) == o[1] = "Some"
Unwrap(o) == o[2]

Pieces == {Http, Https, <<"f", "t", "p">>, SchemeSep, <<"a">>, <<Dot>>, <<"/">>}
UrlSegments == {Flatten(ps) : ps \in UNION {[1..n -> Pieces] : n \in 1..MaxPieces}}
UrlInputs == {None} \cup {Some(s) : s \in UrlSegments}

\* the segments for which the query string and the inbound headers vary
ShortUrlInputs == {Some(Flatten(ps)) : ps \in UNION {[1..n -> Pieces] : n \in 1..MaxShortPieces}}

\* req.query_string(): "x=1" or none
Queries == {None, Some(<<"x", "=", "1">>)}
\* req.headers(): none, or "Authorization: x"
InHeaders == {<<>>, << <<"Authorization", <<120>>>> >>}

Methods == {"GET", "POST", "PUT", "DELETE", "PATCH", "OPTIONS"}
Bodies == {<<>>, <<"{", "}">>}

\* what the upstream may answer
UpstreamStatus == {200, 404}
\* "text/html", "application/json", and a value with an obs-text byte (0xE9)
UpstreamContentTypes == {None, Some(<<116, 101, 120, 116, 47, 104, 116, 109, 108>>), Some(AppJson), Some(<<116, 233>>)}
UpstreamBodies == {<<>>, <<"{", "}">>}
TransportErrors == {"connection refused", "dns error"}
ReadErrors == {"connection reset"}

\* ------------------------------------------------------------------- state
VARIABLES
    pc,         \* pc[r]: where the handler of slot r stands
    method,     \* req.method()
    urlParam,   \* req.match_info().get("url")
    query,      \* the query string of the inbound request
    inHeaders,  \* the headers of the inbound request
    body,       \* the inbound body
    url,        \* the local `url` of cors_proxy once validated
    outMethod,  \* the local `method` of cors_proxy once mapped
    sent,       \* the outbound requests issued for this inbound request
    upstream,   \* the upstream `response` held by the handler
    contentType,\* the local `content_type`
    upBody,     \* the bytes read from the upstream response
    err,        \* the failure kind of the return statement taken
    resp        \* the HttpResponse returned

vars == <<pc, method, urlParam, query, inHeaders, body, url, outMethod, sent, upstream, contentType, upBody, err, resp>>

NoResponse == [status |-> 0, headers |-> <<>>, body |-> <<>>]
NoUpstream == [status |-> 0, contentType |-> None]

Terminal == {"Rejected", "GatewayError", "ResponseBuilt", "Panicked"}

Response(status, headers, b) == [status |-> status, headers |-> headers, body |-> b]

\* a plausible slip: the error responses get the CORS headers as well
BadRequest_Cors(text) ==
    Response(400, << <<"Access-Control-Allow-Origin", AllowOriginValue>> >>, <<text>>)

\* HttpResponse::BadRequest().body(text)
BadRequest(text) == Response(400, <<>>, <<text>>)

\* HttpResponse::MethodNotAllowed().finish()
MethodNotAllowed == Response(405, <<>>, <<>>)

\* HttpResponse::BadGateway().body(format!("{text}{}", e))
BadGateway(text, e) == Response(502, <<>>, <<text, e>>)

\* a plausible slip: PATCH is mapped like the other verbs
MethodMapped_Patch(m) == m \in {"GET", "POST", "PUT", "DELETE", "PATCH"}

\* the arms of `match *req.method()` that map to a reqwest::Method
MethodMapped(m) == m \in {"GET", "POST", "PUT", "DELETE"}

\* a plausible slip: the upstream status is passed on
SuccessStatus_Upstream(up) == up.status

\* a plausible slip: an arm of the match copied without its right-hand side changed
ReqwestMethod_CopyPaste(m) == IF m = "PUT" THEN "POST" ELSE m

\* the right-hand sides of the arms of `match *req.method()`; the `_` arm
\* returns 405 and yields no method (MapMethod takes it when ~MethodMapped)
ReqwestMethod(m) ==
    CASE m = "GET" -> "GET"
      [] m = "POST" -> "POST"
      [] m = "PUT" -> "PUT"
      [] m = "DELETE" -> "DELETE"
      [] OTHER -> m

\* HttpResponse::Ok()
SuccessStatus(up) == 200

Init ==
    /\ pc = [r \in Req |-> "Idle"]
    /\ method = [r \in Req |-> "GET"]
    /\ urlParam = [r \in Req |-> None]
    /\ query = [r \in Req |-> None]
    /\ inHeaders = [r \in Req |-> <<>>]
    /\ body = [r \in Req |-> <<>>]
    /\ url = [r \in Req |-> <<>>]
    /\ outMethod = [r \in Req |-> "NONE"]
    /\ sent = [r \in Req |-> <<>>]
    /\ upstream = [r \in Req |-> NoUpstream]
    /\ contentType = [r \in Req |-> <<>>]
    /\ upBody = [r \in Req |-> <<>>]
    /\ err = [r \in Req |-> "NONE"]
    /\ resp = [r \in Req |-> NoResponse]

\* the route "/{url:.+}" of main binds `url` to the path after the leading
\* slash; the query string is not part of the path and stays in the request
Accept(r, m, u, q, h, b) ==
    /\ method' = [method EXCEPT ![r] = m]
    /\ urlParam' = [urlParam EXCEPT ![r] = u]
    /\ query' = [query EXCEPT ![r] = q]
    /\ inHeaders' = [inHeaders EXCEPT ![r] = h]
    /\ body' = [body EXCEPT ![r] = b]
    /\ pc' = [pc EXCEPT ![r] = "Start"]
    /\ UNCHANGED <<url, outMethod, sent, upstream, contentType, upBody, err, resp>>

\* the framework calls cors_proxy(req, body); one request at a time
Receive(r) ==
    /\ \A q \in Req : pc[q] = "Idle"
    /\ \E m \in Methods, u \in UrlInputs, b \in Bodies :
        \E q \in (IF u \in ShortUrlInputs THEN Queries ELSE {None}),
           h \in (IF u \in ShortUrlInputs THEN InHeaders ELSE {<<>>}) :
            Accept(r, m, u, q, h, b)

\* return Ok(response) from a failure branch
Fail(r, state, kind, response) ==
    /\ pc' = [pc EXCEPT ![r] = state]
    /\ err' = [err EXCEPT ![r] = kind]
    /\ resp' = [resp EXCEPT ![r] = response]

\* a plausible slip: the dot check is made before the protocol check
ValidateUrl_DomainFirst(r) ==
    /\ pc[r] = "Start"
    /\ IF ~IsSome(urlParam[r])
       THEN /\ Fail(r, "Rejected", "MissingURL", BadRequest(MsgNoUrl))
            /\ UNCHANGED url
       ELSE LET u == Unwrap(urlParam[r]) IN
            IF ~HasDot(Domain(u))
            THEN /\ Fail(r, "Rejected", "InvalidDomain", BadRequest(MsgInvalidDomain))
                 /\ UNCHANGED url
            ELSE IF UnsupportedProtocol(u)
            THEN /\ Fail(r, "Rejected", "UnsupportedProtocol", BadRequest(MsgUnsupported))
                 /\ UNCHANGED url
            ELSE /\ url' = [url EXCEPT ![r] = Normalize(u)]
                 /\ pc' = [pc EXCEPT ![r] = "URLValidated"]
                 /\ UNCHANGED <<err, resp>>
    /\ UNCHANGED <<method, urlParam, query, inHeaders, body, outMethod, sent, upstream, contentType, upBody>>

\* lines 8-40
ValidateUrl(r) ==
    /\ pc[r] = "Start"
    /\ IF ~IsSome(urlParam[r])
       THEN /\ Fail(r, "Rejected", "MissingURL", BadRequest(MsgNoUrl))
            /\ UNCHANGED url
       ELSE LET u == Unwrap(urlParam[r]) IN
            IF UnsupportedProtocol(u)
            THEN /\ Fail(r, "Rejected", "UnsupportedProtocol", BadRequest(MsgUnsupported))
                 /\ UNCHANGED url
            ELSE IF ~HasDot(Domain(u))
            THEN /\ Fail(r, "Rejected", "InvalidDomain", BadRequest(MsgInvalidDomain))
                 /\ UNCHANGED url
            ELSE /\ url' = [url EXCEPT ![r] = Normalize(u)]
                 /\ pc' = [pc EXCEPT ![r] = "URLValidated"]
                 /\ UNCHANGED <<err, resp>>
    /\ UNCHANGED <<method, urlParam, query, inHeaders, body, outMethod, sent, upstream, contentType, upBody>>

\* lines 47-58
MapMethod(r) ==
    /\ pc[r] = "URLValidated"
    /\ IF MethodMapped(method[r])
       THEN /\ outMethod' = [outMethod EXCEPT ![r] = ReqwestMethod(method[r])]
            /\ pc' = [pc EXCEPT ![r] = "MethodValidated"]
            /\ UNCHANGED <<err, resp>>
       ELSE /\ Fail(r, "Rejected", "MethodNotAllowed", MethodNotAllowed)
            /\ UNCHANGED outMethod
    /\ UNCHANGED <<method, urlParam, query, inHeaders, body, url, sent, upstream, contentType, upBody>>

\* a plausible slip: the inbound headers are copied to the outbound request
Send_WithHeaders(r) ==
    /\ pc[r] = "MethodValidated"
    /\ sent' = [sent EXCEPT ![r] = Append(@, [method |-> outMethod[r], url |-> url[r],
                                              headers |-> inHeaders[r], body |-> body[r]])]
    /\ pc' = [pc EXCEPT ![r] = "Sending"]
    /\ UNCHANGED <<method, urlParam, query, inHeaders, body, url, outMethod, upstream, contentType, upBody, err, resp>>

\* lines 61-65: client.request(method, url.clone()).body(body.to_vec()).send();
\* `headers` are the headers the handler sets on the request builder: none
Send(r) ==
    /\ pc[r] = "MethodValidated"
    /\ sent' = [sent EXCEPT ![r] = Append(@, [method |-> outMethod[r], url |-> url[r],
                                              headers |-> <<>>, body |-> body[r]])]
    /\ pc' = [pc EXCEPT ![r] = "Sending"]
    /\ UNCHANGED <<method, urlParam, query, inHeaders, body, url, outMethod, upstream, contentType, upBody, err, resp>>

\* a plausible slip: a transport failure is retried
SendErr_Retry(r) ==
    /\ pc[r] = "Sending"
    /\ pc' = [pc EXCEPT ![r] = "MethodValidated"]
    /\ UNCHANGED <<method, urlParam, query, inHeaders, body, url, outMethod, sent, upstream, contentType, upBody, err, resp>>

\* lines 67-71, Err(e)
SendErr(r) ==
    /\ pc[r] = "Sending"
    /\ \E e \in TransportErrors :
        Fail(r, "GatewayError", "UpstreamUnreachable", BadGateway(MsgForwardFailed, e))
    /\ UNCHANGED <<method, urlParam, query, inHeaders, body, url, outMethod, sent, upstream, contentType, upBody>>

\* line 67, Ok(response)
SendOk(r) ==
    /\ pc[r] = "Sending"
    /\ \E s \in UpstreamStatus, ct \in UpstreamContentTypes :
        upstream' = [upstream EXCEPT ![r] = [status |-> s, contentType |-> ct]]
    /\ pc' = [pc EXCEPT ![r] = "Forwarded"]
    /\ UNCHANGED <<method, urlParam, query, inHeaders, body, url, outMethod, sent, contentType, upBody, err, resp>>

\* a plausible slip: the content type is kept in a static shared by all requests
ContentType_Shared(r) ==
    /\ pc[r] = "Forwarded"
    /\ LET h == upstream[r].contentType IN
       IF ~IsSome(h)
       THEN /\ contentType' = [q \in Req |-> AppJson]
            /\ pc' = [pc EXCEPT ![r] = "ReadingBody"]
       ELSE IF ToStrOk(Unwrap(h))
       THEN /\ contentType' = [q \in Req |-> Unwrap(h)]
            /\ pc' = [pc EXCEPT ![r] = "ReadingBody"]
       ELSE /\ pc' = [pc EXCEPT ![r] = "Panicked"]
            /\ UNCHANGED contentType
    /\ UNCHANGED <<method, urlParam, query, inHeaders, body, url, outMethod, sent, upstream, upBody, err, resp>>

\* lines 75-80: .get(CONTENT_TYPE).map(|h| h.to_str().unwrap()).unwrap_or("application/json")
ContentType(r) ==
    /\ pc[r] = "Forwarded"
    /\ LET h == upstream[r].contentType IN
       IF ~IsSome(h)
       THEN /\ contentType' = [contentType EXCEPT ![r] = AppJson]
            /\ pc' = [pc EXCEPT ![r] = "ReadingBody"]
       ELSE IF ToStrOk(Unwrap(h))
       THEN /\ contentType' = [contentType EXCEPT ![r] = Unwrap(h)]
            /\ pc' = [pc EXCEPT ![r] = "ReadingBody"]
       ELSE \* unwrap() on Err: the handler panics
            /\ pc' = [pc EXCEPT ![r] = "Panicked"]
            /\ UNCHANGED contentType
    /\ UNCHANGED <<method, urlParam, query, inHeaders, body, url, outMethod, sent, upstream, upBody, err, resp>>

\* lines 83-89, Err(e)
BytesErr(r) ==
    /\ pc[r] = "ReadingBody"
    /\ \E e \in ReadErrors :
        Fail(r, "GatewayError", "UpstreamBodyReadError", BadGateway(MsgReadFailed, e))
    /\ UNCHANGED <<method, urlParam, query, inHeaders, body, url, outMethod, sent, upstream, contentType, upBody>>

\* line 84, Ok(bytes)
BytesOk(r) ==
    /\ pc[r] = "ReadingBody"
    /\ \E b \in UpstreamBodies : upBody' = [upBody EXCEPT ![r] = b]
    /\ pc' = [pc EXCEPT ![r] = "BodyRead"]
    /\ UNCHANGED <<method, urlParam, query, inHeaders, body, url, outMethod, sent, upstream, contentType, err, resp>>

\* lines 92-101
CorsHeaders(ct) ==
    << <<"Access-Control-Allow-Origin", AllowOriginValue>>,
       <<"Access-Control-Allow-Methods", AllowMethodsValue>>,
       <<"Access-Control-Allow-Headers", AllowHeadersValue>>,
       <<"Access-Control-Max-Age", MaxAgeValue>>,
       <<"Content-Type", ct>> >>

BuildResponse(r) ==
    /\ pc[r] = "BodyRead"
    /\ resp' = [resp EXCEPT ![r] = Response(SuccessStatus(upstream[r]), CorsHeaders(contentType[r]), upBody[r])]
    /\ pc' = [pc EXCEPT ![r] = "ResponseBuilt"]
    /\ UNCHANGED <<method, urlParam, query, inHeaders, body, url, outMethod, sent, upstream, contentType, upBody, err>>

\* the request is over (response written, or connection dropped after a
\* panic); its locals are dropped and the slot serves the next request
Finish(r) ==
    /\ pc[r] \in Terminal
    /\ pc' = [pc EXCEPT ![r] = "Idle"]
    /\ method' = [method EXCEPT ![r] = "GET"]
    /\ urlParam' = [urlParam EXCEPT ![r] = None]
    /\ query' = [query EXCEPT ![r] = None]
    /\ inHeaders' = [inHeaders EXCEPT ![r] = <<>>]
    /\ body' = [body EXCEPT ![r] = <<>>]
    /\ url' = [url EXCEPT ![r] = <<>>]
    /\ outMethod' = [outMethod EXCEPT ![r] = "NONE"]
    /\ sent' = [sent EXCEPT ![r] = <<>>]
    /\ upstream' = [upstream EXCEPT ![r] = NoUpstream]
    /\ contentType' = [contentType EXCEPT ![r] = <<>>]
    /\ upBody' = [upBody EXCEPT ![r] = <<>>]
    /\ err' = [err EXCEPT ![r] = "NONE"]
    /\ resp' = [resp EXCEPT ![r] = NoResponse]

Next ==
    \E r \in Req :
        \/ Receive(r)
        \/ ValidateUrl(r)
        \/ MapMethod(r)
        \/ Send(r)
        \/ SendErr(r)
        \/ SendOk(r)
        \/ ContentType(r)
        \/ BytesErr(r)
        \/ BytesOk(r)
        \/ BuildResponse(r)
        \/ Finish(r)

Spec == Init /\ [][Next]_vars

\* ------------------------------------------------------ concurrent requests
\* HttpServer::new(|| App::new()...) of main runs cors_proxy as one task per
\* request; the tasks interleave at their awaits. The inputs are few so that
\* every interleaving of NumReq requests is covered.
ConcMethods == {"GET", "PATCH"}
ConcUrlInputs == {Some(<<"a", ".">>), Some(<<"f", "t", "p", ":", "/", "/", "a", ".">>)}
ConcBodies == {<<>>, <<"{", "}">>}

\* the framework calls cors_proxy(req, body) while other requests are in flight
ReceiveConc(r) ==
    /\ pc[r] = "Idle"
    /\ \E m \in ConcMethods, u \in ConcUrlInputs, b \in ConcBodies :
        Accept(r, m, u, None, <<>>, b)

NextConc ==
    \E r \in Req :
        \/ ReceiveConc(r)
        \/ ValidateUrl(r)
        \/ MapMethod(r)
        \/ Send(r)
        \/ SendErr(r)
        \/ SendOk(r)
        \/ ContentType(r)
        \/ BytesErr(r)
        \/ BytesOk(r)
        \/ BuildResponse(r)
        \/ Finish(r)

SpecConc == Init /\ [][NextConc]_vars

TypeOK ==
    \A r \in Req :
        /\ pc[r] \in {"Idle", "Start", "URLValidated", "MethodValidated", "Sending", "Forwarded", "ReadingBody", "BodyRead"} \cup Terminal
        /\ method[r] \in Methods

\* ------------------------------------------------- vocabulary of the claims
\* the handler of slot r has run its URL validation / has returned
PastValidation(r) == pc[r] \notin {"Idle", "Start"}
Returned(r) == pc[r] \in {"Rejected", "GatewayError", "ResponseBuilt"}

\* the text before the first "://" of s (s contains "://")
SchemeOf(s) == SubSeq(s, 1, FindFirst(s, <<":", "/", "/">>) - 1)

\* the text after the last "://" of s, all of s when there is none
PostScheme(s) ==
    LET hits == {i \in 1..(Len(s) - 2) : SubSeq(s, i, i + 2) = <<":", "/", "/">>}
    IN IF hits = {} THEN s
       ELSE LET k == CHOOSE i \in hits : \A j \in hits : j <= i
            IN SubSeq(s, k + 3, Len(s))

\* s starts with "http://" or with "https://"
HasHttpPrefix(s) ==
    \/ Len(s) >= 7 /\ SubSeq(s, 1, 7) = <<"h", "t", "t", "p", ":", "/", "/">>
    \/ Len(s) >= 8 /\ SubSeq(s, 1, 8) = <<"h", "t", "t", "p", "s", ":", "/", "/">>

\* the segment passes the three checks of the URL validation
ValidSegment(o) ==
    /\ o # None
    /\ ~(Contains(o[2], <<":", "/", "/">>) /\ ~HasHttpPrefix(o[2]))
    /\ \E i \in 1..Len(PostScheme(o[2])) : PostScheme(o[2])[i] = "."

\* the host of an absolute http(s) URL: the text between the scheme and the first "/"
HostOf(u) ==
    LET rest == IF SubSeq(u, 1, 7) = <<"h", "t", "t", "p", ":", "/", "/">>
                THEN SubSeq(u, 8, Len(u)) ELSE SubSeq(u, 9, Len(u))
        slashes == {i \in 1..Len(rest) : rest[i] = "/"}
    IN IF slashes = {} THEN rest
       ELSE SubSeq(rest, 1, (CHOOSE i \in slashes : \A j \in slashes : i <= j) - 1)

\* the values the response carries for a header name
HeaderValues(response, name) ==
    {response.headers[i][2] : i \in {j \in 1..Len(response.headers) : response.headers[j][1] = name}}

CorsHeaderNames ==
    {"Access-Control-Allow-Origin", "Access-Control-Allow-Methods",
     "Access-Control-Allow-Headers", "Access-Control-Max-Age"}

C2_UnsupportedRejected ==
    \A r \in Req :
        (/\ PastValidation(r)
         /\ urlParam[r] # None
         /\ Contains(urlParam[r][2], <<":", "/", "/">>)
         /\ SchemeOf(urlParam[r][2]) \notin {<<"h", "t", "t", "p">>, <<"h", "t", "t", "p", "s">>}
         /\ method[r] \in {"GET", "POST", "PUT", "DELETE"})
            => /\ pc[r] = "Rejected"
               /\ resp[r].status = 400
               /\ resp[r].body = <<"Unsupported protocol. Only HTTP and HTTPS are allowed.">>
               /\ sent[r] = <<>>

C2_Witness ==
    \E r \in Req :
        /\ pc[r] = "Rejected"
        /\ method[r] = "POST"
        /\ urlParam[r] = <<"Some", <<"f", "t", "p", ":", "/", "/", "a", ".">>>>
        /\ resp[r].status = 400

\* ----------------------------------------------------------------------- C3
\* C3 as stated: a segment whose post-scheme portion has no "." is answered
\* 400 with the text "Invalid domain name".
C3_AsStated ==
    \A r \in Req :
        (/\ PastValidation(r)
         /\ urlParam[r] # None
         /\ \A i \in 1..Len(PostScheme(urlParam[r][2])) : PostScheme(urlParam[r][2])[i] # ".")
            => /\ resp[r].status = 400
               /\ resp[r].body = <<"Invalid domain name">>

\* C3 amended: a segment whose post-scheme portion has no "." is answered 400;
\* the text is "Invalid domain name" unless the segment contains "://" without
\* starting with "http://" or "https://", in which case it is the
\* unsupported-protocol text.
C3_NoDotRejected ==
    \A r \in Req :
        (/\ PastValidation(r)
         /\ urlParam[r] # None
         /\ \A i \in 1..Len(PostScheme(urlParam[r][2])) : PostScheme(urlParam[r][2])[i] # ".")
            => /\ pc[r] = "Rejected"
               /\ resp[r].status = 400
               /\ sent[r] = <<>>
               /\ resp[r].body =
                    IF Contains(urlParam[r][2], <<":", "/", "/">>) /\ ~HasHttpPrefix(urlParam[r][2])
                    THEN <<"Unsupported protocol. Only HTTP and HTTPS are allowed.">>
                    ELSE <<"Invalid domain name">>

C3_Witness ==
    \E r \in Req :
        /\ pc[r] = "Rejected"
        /\ urlParam[r] = <<"Some", <<"h", "t", "t", "p", ":", "/", "/", "a", ".", ":", "/", "/">>>>
        /\ resp[r].body = <<"Invalid domain name">>

\* ----------------------------------------------------------------------- C4
\* C4: the URL the handler forwards to is "https://" + s when s starts with
\* neither "http://" nor "https://", and s itself otherwise; normalizing the
\* forwarded URL again changes nothing.
C4_Normalization ==
    \A r \in Req :
        /\ pc[r] \in {"URLValidated", "MethodValidated"} =>
                url[r] = IF HasHttpPrefix(urlParam[r][2])
                         THEN urlParam[r][2]
                         ELSE <<"h", "t", "t", "p", "s", ":", "/", "/">> \o urlParam[r][2]
        /\ \A i \in 1..Len(sent[r]) :
            /\ sent[r][i].url = IF HasHttpPrefix(urlParam[r][2])
                                THEN urlParam[r][2]
                                ELSE <<"h", "t", "t", "p", "s", ":", "/", "/">> \o urlParam[r][2]
            /\ Normalize(sent[r][i].url) = sent[r][i].url

C4_Witness ==
    \E r \in Req :
        /\ Len(sent[r]) = 1
        /\ urlParam[r] = <<"Some", <<"a", ".", "/", "a">>>>
        /\ sent[r][1].url = <<"h", "t", "t", "p", "s", ":", "/", "/", "a", ".", "/", "a">>

\* the same for a segment that already carries a scheme
C4_WitnessPrefixed ==
    \E r \in Req :
        /\ Len(sent[r]) = 1
        /\ urlParam[r] = <<"Some", <<"h", "t", "t", "p", ":", "/", "/", "a", ".", "a">>>>
        /\ sent[r][1].url = urlParam[r][2]

\* ----------------------------------------------------------------------- C5
\* C5: once the upstream has answered and its body is read, the response is
\* 200 whatever the upstream status was, carries the four CORS headers with
\* their fixed values and one Content-Type header, and its body is the
\* upstream body.
C5_SuccessResponse ==
    \A r \in Req :
        pc[r] = "ResponseBuilt" =>
            /\ resp[r].status = 200
            /\ HeaderValues(resp[r], "Access-Control-Allow-Origin") = {<<42>>}
            /\ HeaderValues(resp[r], "Access-Control-Allow-Methods") =
                {<<71, 69, 84, 44, 32, 80, 79, 83, 84, 44, 32, 80, 85, 84, 44, 32, 68, 69, 76, 69, 84, 69, 44, 32, 79, 80, 84, 73, 79, 78, 83>>}
            /\ HeaderValues(resp[r], "Access-Control-Allow-Headers") =
                {<<67, 111, 110, 116, 101, 110, 116, 45, 84, 121, 112, 101>>}
            /\ HeaderValues(resp[r], "Access-Control-Max-Age") = {<<51, 54, 48, 48>>}
            /\ Cardinality(HeaderValues(resp[r], "Content-Type")) = 1
            /\ Len(resp[r].headers) = 5
            /\ resp[r].body = upBody[r]

C5_Witness ==
    \E r \in Req :
        /\ pc[r] = "ResponseBuilt"
        /\ upstream[r].status = 404
        /\ upBody[r] = <<"{", "}">>
        /\ resp[r].status = 200

\* ----------------------------------------------------------------------- C6
\* C6: once the upstream has answered, the content type the handler uses is
\* the upstream's Content-Type value when the header is present and readable
\* as text, and "application/json" in every other case.
C6_ContentTypeFallback ==
    \A r \in Req :
        (upstream[r].status # 0 /\ pc[r] # "Forwarded")
            => contentType[r] =
                IF upstream[r].contentType # None
                   /\ \A i \in 1..Len(upstream[r].contentType[2]) :
                        LET b == upstream[r].contentType[2][i]
                        IN (32 <= b /\ b <= 126) \/ b = 9
                THEN upstream[r].contentType[2]
                ELSE <<97, 112, 112, 108, 105, 99, 97, 116, 105, 111, 110, 47, 106, 115, 111, 110>>

\* ----------------------------------------------------------------------- C7
\* C7: a request that has ended has ended with a response of status 200, 400,
\* 405 or 502.
C7_AlwaysResponds ==
    \A r \in Req :
        pc[r] \in Terminal => resp[r].status \in {200, 400, 405, 502}

\* ----------------------------------------------------------------------- C8
\* C8: at most one outbound request per inbound request: exactly one once URL
\* validation and method mapping have both succeeded and the request was sent,
\* none for a request rejected with 400 or 405, and none added after a
\* transport or body-read failure.
C8_AtMostOneOutbound ==
    \A r \in Req :
        /\ Len(sent[r]) <= 1
        /\ pc[r] \in {"Sending", "Forwarded", "ReadingBody", "BodyRead", "ResponseBuilt", "GatewayError", "Panicked"}
            => Len(sent[r]) = 1
        /\ (pc[r] \in Terminal /\ ValidSegment(urlParam[r]) /\ method[r] \in {"GET", "POST", "PUT", "DELETE"})
            => Len(sent[r]) = 1
        /\ (pc[r] = "Rejected" \/ resp[r].status \in {400, 405}) => Len(sent[r]) = 0
        /\ pc[r] \in {"Idle", "Start", "URLValidated", "MethodValidated"} => Len(sent[r]) = 0

C8_Witness ==
    \E r \in Req :
        /\ pc[r] = "GatewayError"
        /\ err[r] = "UpstreamUnreachable"
        /\ Len(sent[r]) = 1

\* ----------------------------------------------------------------------- C9
\* C9: each failure kind has its fixed response, taken exactly when its
\* condition holds; none of them carries a header, and the 400 and 405 bodies
\* are fixed texts (only the 502 bodies carry the error text).
C9_FailureResponses ==
    \A r \in Req :
        /\ pc[r] \in {"Rejected", "GatewayError"} =>
            /\ resp[r].headers = <<>>
            /\ err[r] \in {"MissingURL", "UnsupportedProtocol", "InvalidDomain",
                           "MethodNotAllowed", "UpstreamUnreachable", "UpstreamBodyReadError"}
            /\ pc[r] = "Rejected" <=> resp[r].status \in {400, 405}
            /\ pc[r] = "GatewayError" <=> resp[r].status = 502
        /\ err[r] = "MissingURL" =>
            /\ urlParam[r] = None
            /\ resp[r].status = 400 /\ resp[r].body = <<"No URL specified">>
        /\ err[r] = "UnsupportedProtocol" =>
            /\ resp[r].status = 400
            /\ resp[r].body = <<"Unsupported protocol. Only HTTP and HTTPS are allowed.">>
        /\ err[r] = "InvalidDomain" =>
            /\ resp[r].status = 400 /\ resp[r].body = <<"Invalid domain name">>
        /\ err[r] = "MethodNotAllowed" =>
            /\ resp[r].status = 405 /\ resp[r].body = <<>>
        /\ err[r] = "UpstreamUnreachable" =>
            /\ resp[r].status = 502
            /\ Len(resp[r].body) = 2
            /\ resp[r].body[1] = "Failed to forward request: "
            /\ resp[r].body[2] \in TransportErrors
        /\ err[r] = "UpstreamBodyReadError" =>
            /\ resp[r].status = 502
            /\ Len(resp[r].body) = 2
            /\ resp[r].body[1] = "Failed to read response body: "
            /\ resp[r].body[2] \in ReadErrors
        /\ (PastValidation(r) /\ urlParam[r] = None) => err[r] = "MissingURL"

C9_Witness ==
    \E r \in Req :
        /\ pc[r] = "GatewayError"
        /\ err[r] = "UpstreamBodyReadError"
        /\ resp[r].status = 502

\* further failure kinds reached
C9_WitnessMissing ==
    \E r \in Req : pc[r] = "Rejected" /\ err[r] = "MissingURL" /\ method[r] = "PUT"

\* ---------------------------------------------------------------------- C10
\* C10: no outbound request goes to a target whose host (the text between the
\* scheme and the first "/") has no ".".
C10_NoSingleLabelHost ==
    \A r \in Req :
        \A i \in 1..Len(sent[r]) :
            \E k \in 1..Len(HostOf(sent[r][i].url)) : HostOf(sent[r][i].url)[k] = "."

\* ------------------------------------------ vocabulary of the later claims
\* the URL the handler is to forward a segment s to
ForwardUrl(s) ==
    IF HasHttpPrefix(s) THEN s ELSE <<"h", "t", "t", "p", "s", ":", "/", "/">> \o s

\* the number of occurrences of "://" in u
CountSchemeSep(u) ==
    Cardinality({i \in 1..(Len(u) - 2) : SubSeq(u, i, i + 2) = <<":", "/", "/">>})

\* ---------------------------------------------------------------------- C11
\* C11: the method of every outbound request is one of GET, POST, PUT, DELETE
\* and is the method of the inbound request.
C11_MethodAllowlist ==
    \A r \in Req :
        /\ \A i \in 1..Len(sent[r]) :
            /\ sent[r][i].method \in {"GET", "POST", "PUT", "DELETE"}
            /\ sent[r][i].method = method[r]
        /\ pc[r] \in {"MethodValidated", "Sending"} =>
            /\ outMethod[r] \in {"GET", "POST", "PUT", "DELETE"}
            /\ outMethod[r] = method[r]

C11_Witness ==
    \E r \in Req :
        /\ Len(sent[r]) = 1
        /\ method[r] = "PUT"
        /\ sent[r][1].method = "PUT"

\* ---------------------------------------------------------------------- C12
\* all the state of the request in slot r
Slot(r) ==
    <<pc[r], method[r], urlParam[r], query[r], inHeaders[r], body[r], url[r], outMethod[r],
      sent[r], upstream[r], contentType[r], upBody[r], err[r], resp[r]>>

\* the response a request gets when it is handled alone: a function of its own
\* method, segment, body and upstream outcome
AloneResponse(r) ==
    IF urlParam[r] = None
    THEN resp[r] = [status |-> 400, headers |-> <<>>, body |-> <<"No URL specified">>]
    ELSE IF Contains(urlParam[r][2], <<":", "/", "/">>) /\ ~HasHttpPrefix(urlParam[r][2])
    THEN resp[r] = [status |-> 400, headers |-> <<>>,
                    body |-> <<"Unsupported protocol. Only HTTP and HTTPS are allowed.">>]
    ELSE IF ~ValidSegment(urlParam[r])
    THEN resp[r] = [status |-> 400, headers |-> <<>>, body |-> <<"Invalid domain name">>]
    ELSE IF method[r] \notin {"GET", "POST", "PUT", "DELETE"}
    THEN resp[r] = [status |-> 405, headers |-> <<>>, body |-> <<>>]
    ELSE IF upstream[r].status = 0
    THEN /\ resp[r].status = 502 /\ resp[r].headers = <<>>
         /\ resp[r].body[1] = "Failed to forward request: "
    ELSE IF pc[r] = "GatewayError"
    THEN /\ resp[r].status = 502 /\ resp[r].headers = <<>>
         /\ resp[r].body[1] = "Failed to read response body: "
    ELSE /\ resp[r].status = 200
         /\ resp[r].body = upBody[r]
         /\ Len(resp[r].headers) = 5
         /\ resp[r].headers[5] =
                <<"Content-Type",
                  IF upstream[r].contentType = None
                  THEN <<97, 112, 112, 108, 105, 99, 97, 116, 105, 111, 110, 47, 106, 115, 111, 110>>
                  ELSE upstream[r].contentType[2]>>

\* C12: with requests handled concurrently, a step of one request changes
\* nothing of another request, every outbound request carries the method,
\* URL and body of its own inbound request, and every response is the one the
\* request gets when handled alone.
C12_Isolation ==
    /\ [](\A r \in Req :
            /\ Returned(r) => AloneResponse(r)
            /\ \A i \in 1..Len(sent[r]) :
                sent[r][i] = [method |-> method[r], url |-> ForwardUrl(urlParam[r][2]),
                              headers |-> <<>>, body |-> body[r]])
    /\ [][\A r, q \in Req : r # q => (Slot(r)' = Slot(r) \/ Slot(q)' = Slot(q))]_vars

\* two requests in flight at once, one answered 200 and one at its await
C12_Witness ==
    \E r, q \in Req :
        /\ r # q
        /\ pc[r] = "ResponseBuilt"
        /\ pc[q] = "ReadingBody"
        /\ contentType[r] # contentType[q]
        /\ body[r] # body[q]

\* ---------------------------------------------------------------------- C13
\* everything after the leading slash of the inbound request: the path and,
\* when there is one, "?" and the query string
RequestTarget(r) ==
    IF query[r] = None THEN urlParam[r][2] ELSE urlParam[r][2] \o <<"?">> \o query[r][2]

\* C13: the URL forwarded to is made of everything after the leading slash of
\* the inbound request, query string included.
C13_WholeTargetForwarded ==
    \A r \in Req :
        \A i \in 1..Len(sent[r]) :
            sent[r][i].url = ForwardUrl(RequestTarget(r))

\* ---------------------------------------------------------------------- C14
\* the stage of the dispatch state machine the handler of slot r is in; the
\* awaits of a stage belong to it, and a panic is an abort of the handler
StageOf(p) ==
    CASE p \in {"MethodValidated", "Sending"} -> "MethodValidated"
      [] p \in {"Forwarded", "ReadingBody", "BodyRead"} -> "Forwarded"
      [] p = "Panicked" -> "Aborted"
      [] OTHER -> p

StageOrder ==
    {<<"Idle", "Start">>,
     <<"Start", "URLValidated">>, <<"Start", "Rejected">>,
     <<"URLValidated", "MethodValidated">>, <<"URLValidated", "Rejected">>,
     <<"MethodValidated", "Forwarded">>, <<"MethodValidated", "GatewayError">>,
     <<"Forwarded", "ResponseBuilt">>, <<"Forwarded", "GatewayError">>,
     <<"Forwarded", "Aborted">>,
     <<"Rejected", "Idle">>, <<"GatewayError", "Idle">>, <<"ResponseBuilt", "Idle">>,
     <<"Aborted", "Idle">>}

\* the first stage that fails for the request of slot r, in the order missing
\* URL, unsupported protocol, invalid domain, method, transport, body read
FirstFailure(r) ==
    IF urlParam[r] = None THEN "MissingURL"
    ELSE IF Contains(urlParam[r][2], <<":", "/", "/">>) /\ ~HasHttpPrefix(urlParam[r][2])
    THEN "UnsupportedProtocol"
    ELSE IF \A i \in 1..Len(PostScheme(urlParam[r][2])) : PostScheme(urlParam[r][2])[i] # "."
    THEN "InvalidDomain"
    ELSE IF method[r] \notin {"GET", "POST", "PUT", "DELETE"} THEN "MethodNotAllowed"
    ELSE IF upstream[r].status = 0 THEN "UpstreamUnreachable"
    ELSE "UpstreamBodyReadError"

\* C14: the handler moves through its stages in the order Start, URLValidated,
\* MethodValidated, Forwarded, ResponseBuilt, leaving it only for Rejected or
\* GatewayError (or by the abort of C6); a request is sent only once the URL
\* and the method are validated; a failure response is the one of the first
\* stage that fails; after Rejected, GatewayError or ResponseBuilt nothing of
\* the request changes until the request is over.
C14_StageOrder ==
    /\ [](\A r \in Req :
            /\ sent[r] # <<>> =>
                /\ StageOf(pc[r]) \in {"MethodValidated", "Forwarded", "ResponseBuilt", "GatewayError", "Aborted"}
                /\ ValidSegment(urlParam[r])
                /\ method[r] \in {"GET", "POST", "PUT", "DELETE"}
            /\ pc[r] \in {"Rejected", "GatewayError"} =>
                /\ err[r] = FirstFailure(r)
                /\ resp[r].status =
                    CASE err[r] \in {"MissingURL", "UnsupportedProtocol", "InvalidDomain"} -> 400
                      [] err[r] = "MethodNotAllowed" -> 405
                      [] OTHER -> 502
            /\ pc[r] = "ResponseBuilt" => (err[r] = "NONE" /\ resp[r].status = 200))
    /\ [][\A r \in Req :
            /\ StageOf(pc'[r]) # StageOf(pc[r]) => <<StageOf(pc[r]), StageOf(pc'[r])>> \in StageOrder
            /\ (pc[r] \in {"Rejected", "GatewayError", "ResponseBuilt"} /\ Slot(r)' # Slot(r))
                => pc'[r] = "Idle"]_vars

C14_Witness ==
    \E r \in Req :
        /\ pc[r] = "Rejected"
        /\ err[r] = "UnsupportedProtocol"
        /\ method[r] = "PATCH"
        /\ \A i \in 1..Len(PostScheme(urlParam[r][2])) : PostScheme(urlParam[r][2])[i] # "."

\* ---------------------------------------------------------------------- C15
\* C15: for every allowed method the outbound request carries the inbound
\* body unchanged, and it is made of the inbound method, URL segment and body
\* only: no inbound header is put on it.
C15_OutboundFromMethodUrlBody ==
    \A r \in Req :
        \A i \in 1..Len(sent[r]) :
            /\ sent[r][i].body = body[r]
            /\ sent[r][i].headers = <<>>
            /\ sent[r][i] = [method |-> method[r], url |-> ForwardUrl(urlParam[r][2]),
                             headers |-> <<>>, body |-> body[r]]

C15_Witness ==
    \E r \in Req :
        /\ Len(sent[r]) = 1
        /\ method[r] = "GET"
        /\ body[r] = <<"{", "}">>
        /\ inHeaders[r] # <<>>
        /\ sent[r][1].body = <<"{", "}">>

\* the same for DELETE
C15_WitnessDelete ==
    \E r \in Req :
        /\ Len(sent[r]) = 1
        /\ method[r] = "DELETE"
        /\ sent[r][1].body = <<"{", "}">>

\* ---------------------------------------------------------------------- C16
\* C16: a segment that starts with neither "http://" nor "https://" and has
\* "://" anywhere is answered 400 with the unsupported-protocol text and is
\* never given the "https://" prefix; so a forwarded URL that was given the
\* prefix has "://" exactly once.
C16_BareHostWithoutSep ==
    \A r \in Req :
        /\ (/\ PastValidation(r)
            /\ urlParam[r] # None
            /\ ~HasHttpPrefix(urlParam[r][2])
            /\ CountSchemeSep(urlParam[r][2]) > 0)
            => /\ pc[r] = "Rejected"
               /\ resp[r].status = 400
               /\ resp[r].body = <<"Unsupported protocol. Only HTTP and HTTPS are allowed.">>
               /\ url[r] = <<>>
               /\ sent[r] = <<>>
        /\ \A i \in 1..Len(sent[r]) :
            ~HasHttpPrefix(urlParam[r][2]) =>
                /\ CountSchemeSep(urlParam[r][2]) = 0
                /\ CountSchemeSep(sent[r][i].url) = 1

\* "://" inside the path of a bare host: a./://
C16_Witness ==
    \E r \in Req :
        /\ pc[r] = "Rejected"
        /\ urlParam[r] = <<"Some", <<"a", ".", "/", ":", "/", "/">>>>
        /\ resp[r].body = <<"Unsupported protocol. Only HTTP and HTTPS are allowed.">>

\* a bare host that is forwarded
C16_WitnessForwarded ==
    \E r \in Req :
        /\ Len(sent[r]) = 1
        /\ urlParam[r] = <<"Some", <<"a", ".", "/", "a">>>>
        /\ CountSchemeSep(sent[r][1].url) = 1
====
